---- MODULE Spec2Model ----
(***************************************************************************)
(* State-machine model of linalg/sundials.cpp: the two solver adapters     *)
(* (CVODESolver, ARKODESolver), the RHS trampoline SundialsMult and the    *)
(* linear-solve shims registered by MFEMLinearCVSolve / MFEMLinearARKSolve.*)
(*                                                                         *)
(* The external stepper (CVode / ARKode) is the environment: while a Step  *)
(* is in progress it may advance its internal time and call back the       *)
(* function pointers stored in its memory, in any order.                   *)
(*                                                                         *)
(* Pointers are modelled by names: host operators "f1","f2", data buffers  *)
(* "d1","d2" (host vectors) and "zn0","ycor","ftemp","tempv" (the          *)
(* stepper's own vectors); heap objects by their index in heap.            *)
(***************************************************************************)
EXTENDS Integers, Sequences, FiniteSets, TLC

\* ---------------------------------------------------------------- bounds
MaxOps == 4      \* adapter API calls (Init, ReInit, Step, SetLinearSolve) per run
MaxCb == 3       \* stepper events (advance, callbacks) inside one Step

NULL == "NULL"
Times == {0 - 1, 0, 1}              \* values of times
Gammas == {1, 2}                   \* values of the stepper's gamma
Dts == {1}                         \* values of the caller's dt
TimeOps == {"f1", "f2"}            \* mfem::TimeDependentOperator objects
HostBufs == {"d1", "d2"}           \* data arrays of host mfem::Vectors
LinSolves == {[J |-> "J1", op |-> "op1"], [J |-> "J2", op |-> "op2"]}

CV_FUNCTIONAL == "CV_FUNCTIONAL"
CV_NEWTON == "CV_NEWTON"

VARIABLES
  mpi,      \* the build: TRUE when MFEM_USE_MPI is defined
  ad,       \* the adapter object's fields
  mem,      \* contents of the external solver memory ode_mem points at
  lm,       \* contents of the MFEMLinearSolverMemory attached last
  heap,     \* every object allocated so far: kind, number of releases, data
  calls,    \* calls made by the last action, in order
  ret,      \* value returned by the last callback or registration routine
  frame,    \* the Step in progress: caller's x, t, dt and the stepper call
  pc,       \* "idle", "stepping" (inside CVode/ARKode) or "destroyed"
  nops,     \* adapter API calls so far
  last,     \* name of the last action
  arg,      \* inputs of the last action
  reinit,   \* the operator passed to the last ReInit and the one stored
            \* before it, if no Init came after it
  linsolve  \* arguments of the last SetLinearSolve, if no Init or ReInit
            \* came after it

vars == <<mpi, ad, mem, lm, heap, calls, ret, frame, pc, nops, last,
          arg, reinit, linsolve>>

\* ------------------------------------------------------------------ heap
Alloc(h, k, d) == Append(h, [kind |-> k, frees |-> 0, data |-> d])

Release(h, id) == [h EXCEPT ![id].frees = @ + 1]

Live(h, k) == {i \in DOMAIN h : h[i].kind = k /\ h[i].frees = 0}

\* No Step in progress.
NoFrame ==
  [x |-> NULL, t |-> 0, dt |-> 0, tout |-> 0, ncb |-> 0, advanced |-> FALSE]

\* The machine state the operations below transform.
S == [ad |-> ad, mem |-> mem, lm |-> lm, heap |-> heap,
      calls |-> <<>>, ret |-> "void", frame |-> frame, pc |-> pc]

\* The same between two Steps: the frame of the Step before is gone.
Idle == [S EXCEPT !.frame = NoFrame]

\* ------------------------------------------------- host operator interface
\* f->SetTime(t)
SetTime(s, f, t) ==
  [s EXCEPT !.calls = Append(@, [op |-> "SetTime", f |-> f, t |-> t])]

\* f->Mult(y, ydot)
Mult(s, f, y, ydot) ==
  [s EXCEPT !.calls = Append(@, [op |-> "Mult", f |-> f, y |-> y,
                                 ydot |-> ydot])]

\* op->SolveJacobian(b, ycur, yn, J_solve, weight)
SolveJacobian(s, op, b, ycur, yn, J_solve, weight) ==
  [s EXCEPT !.calls = Append(@, [op |-> "SolveJacobian", on |-> op, b |-> b,
                                 ycur |-> ycur, yn |-> yn, J |-> J_solve,
                                 weight |-> weight])]

\* ------------------------------------------------------------ RHS callback
SundialsMult_SetTimeAfterMult(s, t, y, ydot, user_data) ==
  [SetTime(Mult(s, user_data, y, ydot), user_data, t) EXCEPT !.ret = "0"]

\* mfem_y and mfem_ydot are views of the data of y and ydot.
SundialsMult(s, t, y, ydot, user_data) ==
  LET f == user_data
      mfem_y == y
      mfem_ydot == ydot
  IN [Mult(SetTime(s, f, t), f, mfem_y, mfem_ydot) EXCEPT !.ret = "0"]

\* ------------------------------------------- external library (call sites)
\* Solver memory as CVodeCreate / ARKodeCreate return it: nothing registered.
NewMem(fam, iter) ==
  [family |-> fam, iter |-> iter, MallocDone |-> FALSE, tn |-> 0, hu |-> 0,
   gamma |-> 0, y0 |-> NULL, f |-> NULL, fe |-> NULL, fi |-> NULL,
   user_data |-> NULL, linit |-> NULL, lsetup |-> NULL, lsolve |-> NULL,
   lfree |-> NULL, lmem |-> 0, setupNonNull |-> FALSE, maxcor |-> "default",
   msbp |-> "default", mxstep |-> "default", lsolve_type |-> "default",
   linear |-> FALSE, jcur |-> FALSE]

\* The library's own linear solver of the build: CVBand (serial), CVSpgmr (MPI).
LibLS == IF mpi THEN "CVSpgmr" ELSE "CVBand"

LibLSNames == {"CVSpgmr", "CVBand"}

\* static void WrapLinearCVSolveFree(CVodeMem): return;
WrapLinearCVSolveFree(s) == s

\* static void WrapLinearARKSolveFree(ARKodeMem): return;
WrapLinearARKSolveFree(s) == s

\* The library's lfree releases the library's linear-solver memory.
LibLSFree(s) == [s EXCEPT !.heap = Release(@, s.mem.lmem), !.mem.lmem = 0]

\* if (mem->lfree != NULL) { mem->lfree(mem); }  -- called by `by'.
CallLFree(s, by) ==
  IF s.mem.lfree = NULL THEN s
  ELSE LET s1 == [s EXCEPT !.calls = Append(@, [op |-> "lfree",
                                                 fn |-> s.mem.lfree, by |-> by])]
       IN CASE s.mem.lfree = "WrapLinearCVSolveFree" -> WrapLinearCVSolveFree(s1)
            [] s.mem.lfree = "WrapLinearARKSolveFree" -> WrapLinearARKSolveFree(s1)
            [] OTHER -> LibLSFree(s1)

\* ode_mem = CVodeCreate(lmm, iter)
CVodeCreate(s, iter) ==
  [s EXCEPT !.heap = Alloc(@, "ode_mem", NULL),
            !.ad.ode_mem = Len(s.heap) + 1,
            !.mem = NewMem("CVODE", iter)]

\* ode_mem = ARKodeCreate()
ARKodeCreate(s) ==
  [s EXCEPT !.heap = Alloc(@, "ode_mem", NULL),
            !.ad.ode_mem = Len(s.heap) + 1,
            !.mem = NewMem("ARKODE", "NA")]

\* CVodeFree(&ode_mem) / ARKodeFree(&ode_mem): the linear solver's lfree, then
\* the memory itself; the pointer is set to NULL.
OdeFree(s, by) ==
  LET s1 == CallLFree(s, by)
  IN [s1 EXCEPT !.heap = Release(@, s.ad.ode_mem), !.ad.ode_mem = 0]

\* CVodeInit(ode_mem, f, t0, y): RHS function, initial time, initial condition.
CVodeInit(s, f, t0, y) ==
  [s EXCEPT !.mem.f = f, !.mem.tn = t0, !.mem.y0 = s.heap[y].data,
            !.mem.MallocDone = TRUE]

\* CVodeReInit(ode_mem, t0, y): time and solution; the RHS stays.
CVodeReInit(s, t0, y) ==
  [s EXCEPT !.mem.tn = t0, !.mem.y0 = s.heap[y].data]

\* ARKodeInit(ode_mem, fe, fi, t0, y) and ARKodeReInit(ode_mem, fe, fi, t0, y)
ARKodeInit(s, fe, fi, t0, y) ==
  [s EXCEPT !.mem.fe = fe, !.mem.fi = fi, !.mem.tn = t0,
            !.mem.y0 = s.heap[y].data, !.mem.MallocDone = TRUE]

\* CVodeSetUserData / ARKodeSetUserData
SetUserData(s, user_data) == [s EXCEPT !.mem.user_data = user_data]

\* CVBand(ode_mem, ...) / CVSpgmr(ode_mem, ...): the library attaches its own
\* linear solver, releasing the one registered before through its lfree.
LibLSAttach(s) ==
  LET s1 == CallLFree(s, LibLS)
  IN [s1 EXCEPT !.heap = Alloc(@, "lib_lmem", NULL),
                !.mem.lmem = Len(s1.heap) + 1,
                !.mem.linit = LibLS, !.mem.lsetup = LibLS,
                !.mem.lsolve = LibLS, !.mem.lfree = LibLS,
                !.mem.setupNonNull = TRUE]

\* ------------------------------------------------------------ CVODESolver
\* y = N_VMake_Serial(...) / N_VMake_ParHyp(...): a new wrapper of _y's data;
\* the wrapper y named before is not destroyed.
CreateNVector(s, _y) ==
  [s EXCEPT !.heap = Alloc(@, "nvec", _y), !.ad.y = Len(s.heap) + 1]

\* serial: NV_DATA_S(_y) = _x->GetData();  MPI: y = N_VMake_ParHyp(...)
TransferNVectorShallow(s, _x) ==
  IF mpi THEN [s EXCEPT !.heap = Alloc(@, "nvec", _x), !.ad.y = Len(s.heap) + 1]
  ELSE [s EXCEPT !.heap[s.ad.y].data = _x]

\* CVodeSStolerances / ARKodeSStolerances; tolerances_set_sundials = true
SetSStolerances(s) == [s EXCEPT !.ad.tolerances_set_sundials = TRUE]

\* The CV_NEWTON branch shared by Init and ReInit.
NewtonBranch(s) ==
  IF s.ad.solver_iteration_type = CV_NEWTON
  THEN LibLSAttach(SetSStolerances(s))
  ELSE s

CVODESolver_Init(s, _f) ==
  LET s1 == [s EXCEPT !.ad.f = _f]
      s2 == CVodeInit(s1, "SundialsMult", 0, s1.ad.y)
      s3 == SetSStolerances(s2)
      s4 == SetUserData(s3, s3.ad.f)
  IN NewtonBranch(s4)

CVODESolver_ReInit_StaleF(s, _f, _y, _t) ==
  LET s2 == CreateNVector(s, _y)
      s3 == CVodeReInit(s2, _t, s2.ad.y)
      s4 == SetUserData(s3, s3.ad.f)
  IN NewtonBranch(s4)

CVODESolver_ReInit(s, _f, _y, _t) ==
  LET s1 == [s EXCEPT !.ad.f = _f]
      s2 == CreateNVector(s1, _y)
      s3 == CVodeReInit(s2, _t, s2.ad.y)
      s4 == SetUserData(s3, s3.ad.f)
  IN NewtonBranch(s4)

\* Step up to and including the call CVode(ode_mem, tout, y, &t, CV_NORMAL).
CVODESolver_Step_ToutIsDt(s, x, t, dt) ==
  LET s1 == TransferNVectorShallow(s, x)
      tout == dt
  IN [s1 EXCEPT !.pc = "stepping",
                !.calls = Append(@, [op |-> "CVode", tout |-> tout,
                                     y |-> s1.ad.y, tret |-> "&t",
                                     itask |-> "NORMAL"]),
                !.frame = [x |-> x, t |-> t, dt |-> dt, tout |-> tout,
                           ncb |-> 0, advanced |-> FALSE]]

CVODESolver_Step(s, x, t, dt) ==
  LET s1 == TransferNVectorShallow(s, x)
      tout == t + dt
  IN [s1 EXCEPT !.pc = "stepping",
                !.calls = Append(@, [op |-> "CVode", tout |-> tout,
                                     y |-> s1.ad.y, tret |-> "&t",
                                     itask |-> "NORMAL"]),
                !.frame = [x |-> x, t |-> t, dt |-> dt, tout |-> tout,
                           ncb |-> 0, advanced |-> FALSE]]

\* Step after CVode returns: the stepper wrote tret through &t, and
\* CVodeGetLastStep(ode_mem, &dt) writes the stepper's last step size to dt.
CVODESolver_StepReturn(s, tret) ==
  [s EXCEPT !.pc = "idle", !.frame.t = tret, !.frame.dt = s.mem.hu]

\* ------------------------------------------------------ linear-solve shims
\* new MFEMLinearSolverMemory() with its vectors: empty Vectors in the serial
\* build, HypreParVectors over the stepper's vector `sv' in the MPI build
\* (which allocates no solve_yn).
NewLmem(sv, solve, op) ==
  [setup_y |-> IF mpi THEN sv ELSE NULL, setup_f |-> IF mpi THEN sv ELSE NULL,
   solve_y |-> IF mpi THEN sv ELSE NULL, solve_yn |-> IF mpi THEN "unset" ELSE NULL,
   solve_f |-> IF mpi THEN sv ELSE NULL, solve_b |-> IF mpi THEN sv ELSE NULL,
   J_solve |-> solve, op_for_gradient |-> op, weight |-> 0]

\* static int WrapLinearSolveSetup(lmem, tn, ypred, fpred): return 0;
WrapLinearSolveSetup(s) == [s EXCEPT !.ret = "0"]

WrapLinearSolve(s, b, ycur, yn) ==
  LET tmp_lmem == s.lm
  IN [SolveJacobian(s, tmp_lmem.op_for_gradient, b, ycur, yn, tmp_lmem.J_solve,
                    tmp_lmem.weight) EXCEPT !.ret = "0"]

WrapLinearCVSolveInit(s) == [s EXCEPT !.ret = "0"]

WrapLinearCVSolveSetup(s, ypred, fpred) ==
  LET s1 == [s EXCEPT !.lm.setup_y = ypred, !.lm.setup_f = fpred,
                      !.mem.jcur = TRUE]
  IN [WrapLinearSolveSetup(s1) EXCEPT !.ret = "0"]

WrapLinearCVSolve(s, b, ycur, fcur) ==
  LET s1 == [s EXCEPT !.lm.solve_y = ycur,
                      !.lm.solve_yn = IF mpi THEN @ ELSE "zn0",
                      !.lm.solve_f = fcur, !.lm.solve_b = b,
                      !.lm.weight = s.mem.gamma]
  IN [WrapLinearSolve(s1, s1.lm.solve_b, s1.lm.solve_y, s1.lm.setup_y)
        EXCEPT !.ret = "0"]

MFEMLinearCVSolve_FieldsBeforeFree(s, solve, op) ==
  LET s1 == [s EXCEPT !.mem.linit = "WrapLinearCVSolveInit",
                      !.mem.lsetup = "WrapLinearCVSolveSetup",
                      !.mem.lsolve = "WrapLinearCVSolve",
                      !.mem.lfree = "WrapLinearCVSolveFree",
                      !.mem.setupNonNull = TRUE, !.mem.maxcor = "1"]
      s2 == CallLFree(s1, "MFEMLinearCVSolve")
  IN [s2 EXCEPT !.heap = Alloc(@, "lmem", NULL),
                !.lm = NewLmem("zn0", solve, op),
                !.mem.lmem = Len(s2.heap) + 1,
                !.ret = "CVSPILS_SUCCESS"]

MFEMLinearCVSolve(s, solve, op) ==
  LET s1 == CallLFree(s, "MFEMLinearCVSolve")
      s2 == [s1 EXCEPT !.mem.linit = "WrapLinearCVSolveInit",
                       !.mem.lsetup = "WrapLinearCVSolveSetup",
                       !.mem.lsolve = "WrapLinearCVSolve",
                       !.mem.lfree = "WrapLinearCVSolveFree",
                       !.mem.setupNonNull = TRUE, !.mem.maxcor = "1"]
  IN [s2 EXCEPT !.heap = Alloc(@, "lmem", NULL),
                !.lm = NewLmem("zn0", solve, op),
                !.mem.lmem = Len(s2.heap) + 1,
                !.ret = "CVSPILS_SUCCESS"]

WrapLinearARKSolveInit(s) == [s EXCEPT !.ret = "0"]

WrapLinearARKSolveSetup(s, ypred, fpred) ==
  LET s1 == [s EXCEPT !.lm.setup_y = ypred, !.lm.setup_f = fpred,
                      !.mem.jcur = TRUE]
  IN [WrapLinearSolveSetup(s1) EXCEPT !.ret = "0"]

WrapLinearARKSolve(s, b, ycur, fcur) ==
  IF s.mem.tn > 0
  THEN LET s1 == [s EXCEPT !.lm.solve_y = ycur,
                           !.lm.solve_yn = IF mpi THEN @ ELSE "ark_y",
                           !.lm.solve_f = fcur, !.lm.solve_b = b,
                           !.lm.weight = s.mem.gamma]
       IN [WrapLinearSolve(s1, s1.lm.solve_b, s1.lm.solve_y, s1.lm.setup_y)
             EXCEPT !.ret = "0"]
  ELSE [s EXCEPT !.ret = "0"]

MFEMLinearARKSolve(s, solve, op) ==
  LET s1 == CallLFree(s, "MFEMLinearARKSolve")
      s2 == [s1 EXCEPT !.mem.linit = "WrapLinearARKSolveInit",
                       !.mem.lsetup = "WrapLinearARKSolveSetup",
                       !.mem.lsolve = "WrapLinearARKSolve",
                       !.mem.lfree = "WrapLinearARKSolveFree",
                       !.mem.lsolve_type = "0", !.mem.linear = TRUE,
                       !.mem.setupNonNull = TRUE, !.mem.msbp = "0"]
  IN [s2 EXCEPT !.heap = Alloc(@, "lmem", NULL),
                !.lm = NewLmem("ark_ycur", solve, op),
                !.mem.lmem = Len(s2.heap) + 1,
                !.ret = "ARKSPILS_SUCCESS"]

\* ------------------------------------------- CVODESolver (continued)
CVODESolver_SetLinearSolve(s, J_solve, op) ==
  LET s1 == IF s.ad.solver_iteration_type = CV_FUNCTIONAL
            THEN LET t0 == s.mem.tn
                     a1 == OdeFree(s, "CVodeFree")
                     a2 == CVodeCreate(a1, CV_NEWTON)
                     a3 == [a2 EXCEPT !.ad.tolerances_set_sundials = FALSE]
                     a4 == CVodeInit(a3, "SundialsMult", t0, a3.ad.y)
                     a5 == SetUserData(a4, a4.ad.f)
                 IN IF ~a5.ad.tolerances_set_sundials
                    THEN SetSStolerances(a5) ELSE a5
            ELSE s
      s2 == [s1 EXCEPT !.mem.mxstep = "10000"]
      s3 == SetSStolerances(s2)
  IN MFEMLinearCVSolve(s3, J_solve, op)

\* ~CVODESolver / ~ARKODESolver: N_VDestroy(y); the solver memory if not NULL.
Destructor(s, by) ==
  LET s1 == [s EXCEPT !.heap = Release(@, s.ad.y)]
      s2 == IF s1.ad.ode_mem # 0 THEN OdeFree(s1, by) ELSE s1
  IN [s2 EXCEPT !.pc = "destroyed"]

\* CVODESolver::CVODESolver(_y, lmm, iter)
CVODESolver_ctor(_y, iter) ==
  LET s0 == [ad |-> [family |-> "CVODE", f |-> NULL, y |-> 0, ode_mem |-> 0,
                     tolerances_set_sundials |-> FALSE,
                     solver_iteration_type |-> iter, use_explicit |-> FALSE],
             heap |-> <<>>, mem |-> NewMem("CVODE", iter)]
      s1 == [s0 EXCEPT !.heap = Alloc(@, "nvec", _y), !.ad.y = 1]
  IN [s1 EXCEPT !.heap = Alloc(@, "ode_mem", NULL), !.ad.ode_mem = 2]

\* ------------------------------------------------------------ ARKODESolver
ARKODESolver_ctor(_y, _use_explicit) ==
  LET s0 == [ad |-> [family |-> "ARKODE", f |-> NULL, y |-> 0, ode_mem |-> 0,
                     tolerances_set_sundials |-> FALSE,
                     solver_iteration_type |-> "NA",
                     use_explicit |-> _use_explicit],
             heap |-> <<>>, mem |-> NewMem("ARKODE", "NA")]
      s1 == [s0 EXCEPT !.heap = Alloc(@, "nvec", _y), !.ad.y = 1]
  IN [s1 EXCEPT !.heap = Alloc(@, "ode_mem", NULL), !.ad.ode_mem = 2]

ARKODESolver_Init(s, _f) ==
  LET s1 == [s EXCEPT !.ad.f = _f]
      s2 == IF s1.ad.use_explicit
            THEN ARKodeInit(s1, "SundialsMult", NULL, 0, s1.ad.y)
            ELSE ARKodeInit(s1, NULL, "SundialsMult", 0, s1.ad.y)
      s3 == SetSStolerances(s2)
  IN SetUserData(s3, s3.ad.f)

\* ARKodeReInit(ode_mem, fe, fi, t0, y)
ARKodeReInit(s, fe, fi, t0, y) ==
  [s EXCEPT !.mem.fe = fe, !.mem.fi = fi, !.mem.tn = t0,
            !.mem.y0 = s.heap[y].data]

ARKODESolver_ReInit(s, _f, _y, _t) ==
  LET s1 == [s EXCEPT !.ad.f = _f]
      s2 == CreateNVector(s1, _y)
      s3 == IF s2.ad.use_explicit
            THEN ARKodeReInit(s2, "SundialsMult", NULL, _t, s2.ad.y)
            ELSE ARKodeReInit(s2, NULL, "SundialsMult", _t, s2.ad.y)
  IN SetUserData(s3, s3.ad.f)

\* Step up to and including the call ARKode(ode_mem, tout, y, &t, ARK_NORMAL).
ARKODESolver_Step(s, x, t, dt) ==
  LET s1 == TransferNVectorShallow(s, x)
      tout == t + dt
  IN [s1 EXCEPT !.pc = "stepping",
                !.calls = Append(@, [op |-> "ARKode", tout |-> tout,
                                     y |-> s1.ad.y, tret |-> "&t",
                                     itask |-> "NORMAL"]),
                !.frame = [x |-> x, t |-> t, dt |-> dt, tout |-> tout,
                           ncb |-> 0, advanced |-> FALSE]]

\* Step after ARKode returns; ARKodeGetLastStep(ode_mem, &dt).
ARKODESolver_StepReturn(s, tret) ==
  [s EXCEPT !.pc = "idle", !.frame.t = tret, !.frame.dt = s.mem.hu]

ARKODESolver_SetLinearSolve(s, solve, op) ==
  LET s1 == IF s.ad.use_explicit
            THEN LET t0 == s.mem.tn
                     a1 == OdeFree(s, "ARKodeFree")
                     a2 == ARKodeCreate(a1)
                     a3 == [a2 EXCEPT !.ad.tolerances_set_sundials = FALSE,
                                      !.ad.use_explicit = FALSE]
                     a4 == IF a3.ad.use_explicit
                           THEN ARKodeInit(a3, "SundialsMult", NULL, t0, a3.ad.y)
                           ELSE ARKodeInit(a3, NULL, "SundialsMult", t0, a3.ad.y)
                     a5 == SetUserData(a4, a4.ad.f)
                 IN IF ~a5.ad.tolerances_set_sundials
                    THEN SetSStolerances(a5) ELSE a5
            ELSE s
      s2 == [s1 EXCEPT !.mem.mxstep = "10000"]
      s3 == SetSStolerances(s2)
  IN MFEMLinearARKSolve(s3, solve, op)

\* ------------------------------------------------------------------ actions
NoReInit == [done |-> FALSE, f |-> NULL, was |-> NULL]

NoLinSolve == [done |-> FALSE, J |-> NULL, op |-> NULL]

\* The state after construction of one adapter, in either build.
Init ==
  /\ mpi \in BOOLEAN
  /\ \E c \in {CVODESolver_ctor("d1", CV_FUNCTIONAL),
               CVODESolver_ctor("d1", CV_NEWTON),
               ARKODESolver_ctor("d1", TRUE),
               ARKODESolver_ctor("d1", FALSE)} :
        /\ ad = c.ad
        /\ mem = c.mem
        /\ heap = c.heap
  /\ lm = NewLmem(NULL, NULL, NULL)
  /\ calls = <<>>
  /\ ret = "void"
  /\ frame = NoFrame
  /\ pc = "idle"
  /\ nops = 0
  /\ last = "ctor"
  /\ arg = [none |-> TRUE]
  /\ reinit = NoReInit
  /\ linsolve = NoLinSolve

Commit(r, nm, a) ==
  /\ ad' = r.ad
  /\ mem' = r.mem
  /\ lm' = r.lm
  /\ heap' = r.heap
  /\ calls' = r.calls
  /\ ret' = r.ret
  /\ frame' = r.frame
  /\ pc' = r.pc
  /\ last' = nm
  /\ arg' = a
  /\ UNCHANGED mpi

ApiCall ==
  /\ pc = "idle"
  /\ nops < MaxOps
  /\ nops' = nops + 1

\* Init(f)
DoInit ==
  /\ ApiCall
  /\ \E f \in TimeOps :
        Commit(IF ad.family = "CVODE" THEN CVODESolver_Init(Idle, f)
               ELSE ARKODESolver_Init(Idle, f), "Init", [f |-> f])
  /\ reinit' = NoReInit
  /\ linsolve' = NoLinSolve

\* ReInit(f, y, t), on a solver initialised before.
DoReInit ==
  /\ ApiCall
  /\ mem.MallocDone
  /\ \E f \in TimeOps, y \in {"d2"}, t \in Times :
        /\ Commit(IF ad.family = "CVODE" THEN CVODESolver_ReInit(Idle, f, y, t)
                  ELSE ARKODESolver_ReInit(Idle, f, y, t), "ReInit",
                  [f |-> f, y |-> y, t |-> t])
        /\ reinit' = [done |-> TRUE, f |-> f, was |-> ad.f]
  /\ linsolve' = NoLinSolve

\* SetLinearSolve(J_solve, op), on a solver initialised before.
DoSetLinearSolve ==
  /\ ApiCall
  /\ mem.MallocDone
  /\ ad.ode_mem # 0
  /\ \E ls \in LinSolves :
        /\ Commit(IF ad.family = "CVODE"
                  THEN CVODESolver_SetLinearSolve(Idle, ls.J, ls.op)
                  ELSE ARKODESolver_SetLinearSolve(Idle, ls.J, ls.op),
                  "SetLinearSolve", [J |-> ls.J, op |-> ls.op])
        /\ linsolve' = [done |-> TRUE, J |-> ls.J, op |-> ls.op]
  /\ UNCHANGED reinit

\* Step(x, t, dt) enters the stepper.
DoStep ==
  /\ ApiCall
  /\ mem.MallocDone
  /\ \E x \in HostBufs, t \in Times, dt \in Dts :
        Commit(IF ad.family = "CVODE" THEN CVODESolver_Step(S, x, t, dt)
               ELSE ARKODESolver_Step(S, x, t, dt), "Step",
               [x |-> x, t |-> t, dt |-> dt])
  /\ UNCHANGED <<reinit, linsolve>>

InStepper ==
  /\ pc = "stepping"
  /\ frame.ncb < MaxCb
  /\ UNCHANGED <<nops, reinit, linsolve>>

Counted(r) == [r EXCEPT !.frame.ncb = @ + 1]

Ended(r) == [r EXCEPT !.frame.ncb = 0, !.frame.advanced = FALSE]

\* The stepper takes an internal step: new time, last step size, new gamma.
StepperAdvance ==
  /\ InStepper
  /\ \E tn \in Times, g \in Gammas :
        /\ tn > mem.tn
        /\ Commit(Counted([S EXCEPT !.mem.tn = tn, !.mem.hu = tn - mem.tn,
                                    !.mem.gamma = g, !.frame.advanced = TRUE]),
                  "advance", [tn |-> tn, gamma |-> g])

\* The stepper evaluates the right-hand side through a registered callback.
StepperRhs ==
  /\ InStepper
  /\ \E slot \in {"f", "fe", "fi"} :
        /\ mem[slot] = "SundialsMult"
        /\ Commit(Counted(SundialsMult(S, mem.tn, "zn0", "ftemp",
                                       mem.user_data)),
                  "rhs", [t |-> mem.tn, y |-> "zn0", ydot |-> "ftemp",
                          user_data |-> mem.user_data])

\* The stepper calls the registered lsetup.
StepperLSetup ==
  /\ InStepper
  /\ frame.advanced
  /\ mem.lsetup # NULL
  /\ Commit(Counted(CASE mem.lsetup = "WrapLinearCVSolveSetup" ->
                           WrapLinearCVSolveSetup(S, "zn0", "ftemp")
                      [] mem.lsetup = "WrapLinearARKSolveSetup" ->
                           WrapLinearARKSolveSetup(S, "ark_ycur", "ftemp")
                      [] OTHER -> [S EXCEPT !.ret = "0"]),
            "lsetup", [fn |-> mem.lsetup])

\* The stepper calls the registered lsolve inside a Newton iteration.
StepperLSolve ==
  /\ InStepper
  /\ frame.advanced
  /\ mem.lsolve # NULL
  /\ Commit(Counted(CASE mem.lsolve = "WrapLinearCVSolve" ->
                           WrapLinearCVSolve(S, "tempv", "ycor", "ftemp")
                      [] mem.lsolve = "WrapLinearARKSolve" ->
                           WrapLinearARKSolve(S, "tempv", "ycor", "ftemp")
                      [] OTHER -> [S EXCEPT !.ret = "0"]),
            "lsolve", [fn |-> mem.lsolve, b |-> "tempv", ycur |-> "ycor",
                       tn |-> mem.tn, gamma |-> mem.gamma])

\* The stepper returns to Step: the time reached, or the time asked for.
StepReturn ==
  /\ pc = "stepping"
  /\ \E tret \in {frame.tout, mem.tn} :
        Commit(Ended(IF ad.family = "CVODE" THEN CVODESolver_StepReturn(S, tret)
                     ELSE ARKODESolver_StepReturn(S, tret)), "StepReturn",
               [tret |-> tret, hu |-> mem.hu])
  /\ UNCHANGED <<nops, reinit, linsolve>>

\* The adapter is destroyed.
Destroy ==
  /\ pc = "idle"
  /\ Commit(Destructor(Idle, IF ad.family = "CVODE" THEN "CVodeFree"
                          ELSE "ARKodeFree"), "destroy", [none |-> TRUE])
  /\ UNCHANGED <<nops, reinit, linsolve>>

Next ==
  \/ DoInit
  \/ DoReInit
  \/ DoSetLinearSolve
  \/ DoStep
  \/ StepperAdvance
  \/ StepperRhs
  \/ StepperLSetup
  \/ StepperLSolve
  \/ StepReturn
  \/ Destroy

Spec == Init /\ [][Next]_vars

\* ------------------------------------------------------------------ claims
\* The callbacks registered as right-hand side (cv_f, ark_fe, ark_fi).
RhsRegistered == {mem.f, mem.fe, mem.fi} \ {NULL}

\* C1: every invocation of SundialsMult(t, y, ydot, user_data) makes exactly
\* two calls on the operator user_data points at and on no other: SetTime(t)
\* first, then Mult once on views of y (input) and ydot (output); it returns 0.
C1_SundialsMultCalls ==
  last = "rhs" =>
    /\ calls = << [op |-> "SetTime", f |-> arg.user_data, t |-> arg.t],
                  [op |-> "Mult", f |-> arg.user_data, y |-> arg.y,
                   ydot |-> arg.ydot] >>
    /\ ret = "0"

C1_Witness ==
  /\ last = "rhs"
  /\ arg.t = 1
  /\ arg.user_data = "f2"
  /\ Len(calls) = 2

\* C2: after SetLinearSolve(J_solve, op) (and no Init or ReInit since), every
\* linear-solve call the stepper makes results in exactly one call
\* op->SolveJacobian(b, ycur, yn, J_solve, weight) with the caller's J_solve
\* and weight equal to the stepper's gamma, whatever the stepper's current time.
C2_EveryLinearSolveReachesOp ==
  (last = "lsolve" /\ linsolve.done) =>
    calls = << [op |-> "SolveJacobian", on |-> linsolve.op, b |-> arg.b,
                ycur |-> arg.ycur, yn |-> lm.setup_y, J |-> linsolve.J,
                weight |-> arg.gamma] >>

\* C3: while the adapter lives it owns exactly one live solver memory and one
\* live vector wrapper, and when the destructor has returned every object it
\* created has been released exactly once.
C3_OneLiveAndAllReleased ==
  /\ pc # "destroyed" =>
       /\ Cardinality(Live(heap, "ode_mem")) = 1
       /\ Cardinality(Live(heap, "nvec")) = 1
  /\ pc = "destroyed" => \A i \in DOMAIN heap : heap[i].frees = 1

\* C4: Step(x, t, dt) re-points the wrapped state vector at x's data and calls
\* the stepper once, in normal mode, with target time t + dt taken from the
\* values on entry; on return t is the time the stepper wrote and dt the last
\* internal step size the stepper reports.
C4_Step ==
  /\ last = "Step" =>
       /\ calls = << [op |-> IF ad.family = "CVODE" THEN "CVode" ELSE "ARKode",
                      tout |-> arg.t + arg.dt, y |-> ad.y, tret |-> "&t",
                      itask |-> "NORMAL"] >>
       /\ frame.x = arg.x
  /\ pc = "stepping" => heap[ad.y].data = frame.x
  /\ last = "StepReturn" =>
       /\ frame.t = arg.tret
       /\ frame.dt = arg.hu
       /\ heap[ad.y].data = frame.x
       /\ calls = <<>>

C4_Witness ==
  /\ last = "StepReturn"
  /\ arg.tret = 2
  /\ frame.dt = 1
  /\ frame.x = "d2"

\* C5: after ReInit(f2, y2, t2) on an initialised solver the stepper's time is
\* t2, the state vector wraps y2, the registered RHS callback is SundialsMult,
\* the stepper's user data equals the stored operator f, which is f2, and
\* every later RHS callback goes to f2.
C5_ReInit ==
  /\ last = "ReInit" =>
       /\ mem.tn = arg.t
       /\ heap[ad.y].data = arg.y
       /\ mem.y0 = arg.y
  /\ reinit.done =>
       /\ RhsRegistered = {"SundialsMult"}
       /\ ad.f = reinit.f
       /\ mem.user_data = ad.f
  /\ (last = "rhs" /\ reinit.done) =>
       \A i \in DOMAIN calls : calls[i].f = reinit.f

C5_Witness ==
  /\ last = "rhs"
  /\ reinit.done
  /\ reinit.was = "f1"
  /\ reinit.f = "f2"
  /\ Len(calls) > 0

\* C6: MFEMLinearCVSolve / MFEMLinearARKSolve call the lfree routine registered
\* before, if there is one, and no other; after that linit, lsetup, lsolve and
\* lfree are the family's four shims, a fresh linear-solver memory record holds
\* the caller's J_solve and op, and the success code is returned.
C6_Registration ==
  [][last' = "SetLinearSolve" =>
       LET cv == ad.family = "CVODE"
           by == IF cv THEN "MFEMLinearCVSolve" ELSE "MFEMLinearARKSolve"
           pre == IF ad'.ode_mem = ad.ode_mem THEN mem.lfree ELSE NULL
           freed == SelectSeq(calls', LAMBDA e : e.by = by)
       IN /\ freed = IF pre = NULL THEN <<>>
                     ELSE << [op |-> "lfree", fn |-> pre, by |-> by] >>
          /\ mem'.linit = IF cv THEN "WrapLinearCVSolveInit"
                          ELSE "WrapLinearARKSolveInit"
          /\ mem'.lsetup = IF cv THEN "WrapLinearCVSolveSetup"
                           ELSE "WrapLinearARKSolveSetup"
          /\ mem'.lsolve = IF cv THEN "WrapLinearCVSolve"
                           ELSE "WrapLinearARKSolve"
          /\ mem'.lfree = IF cv THEN "WrapLinearCVSolveFree"
                          ELSE "WrapLinearARKSolveFree"
          /\ Len(heap') > Len(heap)
          /\ mem'.lmem = Len(heap')
          /\ heap'[mem'.lmem].kind = "lmem"
          /\ heap'[mem'.lmem].frees = 0
          /\ lm'.J_solve = arg'.J
          /\ lm'.op_for_gradient = arg'.op
          /\ ret' = IF cv THEN "CVSPILS_SUCCESS" ELSE "ARKSPILS_SUCCESS"]_vars

C6_Witness ==
  /\ last = "SetLinearSolve"
  /\ \E i \in DOMAIN calls :
        /\ calls[i].by \in {"MFEMLinearCVSolve", "MFEMLinearARKSolve"}
        /\ calls[i].fn # NULL
  /\ lm.J_solve = "J2"

====
